---- MODULE Spec2Model ----
(***************************************************************************)
(* Model of the test-execution and result-normalisation code of            *)
(* rengotai/auto-tester:                                                   *)
(*   src/agents/go_agents.py  GoRunnerAgent.execute_go_tests and           *)
(*                            GoRunnerAgent._parse_go_test_output          *)
(*   src/agents/go_tester.py  GoTester.run_tests and                       *)
(*                            GoTester._parse_test_output                  *)
(*                                                                         *)
(* Text is modelled at character level inside a token.  A character is a   *)
(* one-character string, a token a non-empty sequence of characters        *)
(* without white space, a line a sequence of tokens separated by single    *)
(* blanks, and a captured output a sequence of lines (str.splitlines()).   *)
(***************************************************************************)
EXTENDS Integers, Sequences, FiniteSets, TLC

(***************************************************************************)
(* Bounds of the model.                                                    *)
(***************************************************************************)
MaxLines == 3        \* longest free-text output over all of LinePool
MaxContextLines == 6 \* longest free-text output over ContextPool
MaxStdout == 3       \* longest structured stdout, in lines

(***************************************************************************)
(* Character classes and string primitives.                                *)
(***************************************************************************)
Digits == {"0", "1", "2", "3", "4", "5", "6", "7", "8", "9"}

Letters == {"a", "b", "c", "d", "e", "f", "g", "h", "i", "j", "k", "l", "m",
            "n", "o", "p", "q", "r", "s", "t", "u", "v", "w", "x", "y", "z",
            "A", "B", "C", "D", "E", "F", "G", "H", "I", "J", "K", "L", "M",
            "N", "O", "P", "Q", "R", "S", "T", "U", "V", "W", "X", "Y", "Z"}

\* [\w\.\/] of test_pattern
NameChars == Letters \cup Digits \cup {"_", ".", "/"}

\* [0-9\.] of test_pattern and of the "ok" pattern
DurChars == Digits \cup {"."}

\* s[from..] starts with p
PrefixAt(s, from, p) ==
    /\ from + Len(p) - 1 <= Len(s)
    /\ \A k \in 1..Len(p) : s[from + k - 1] = p[k]

StartsWith(s, p) == PrefixAt(s, 1, p)

EndsWith(s, p) == Len(p) <= Len(s) /\ PrefixAt(s, Len(s) - Len(p) + 1, p)

\* Python's  p in s  for two strings without white space
Contains(s, p) == \E from \in 1..(Len(s) + 1) : PrefixAt(s, from, p)

\* Python's  p in l  for a line l and a string p without white space
LineContains(l, p) == \E t \in 1..Len(l) : Contains(l[t], p)

\* Python's  p in output  for the whole text
TextContains(lines, p) == \E k \in 1..Len(lines) : LineContains(lines[k], p)

\* length of the longest run of characters of class cls in s from position from
RECURSIVE RunLen(_, _, _)
RunLen(s, from, cls) ==
    IF from <= Len(s) /\ s[from] \in cls
    THEN 1 + RunLen(s, from + 1, cls)
    ELSE 0

FAIL == <<"F", "A", "I", "L">>
PASS == <<"P", "A", "S", "S">>
SKIP == <<"S", "K", "I", "P">>

(***************************************************************************)
(* GoRunnerAgent._parse_go_test_output (free-text mode).                   *)
(***************************************************************************)
Dashes == <<"-", "-", "-">>

Statuses == {PASS, FAIL, SKIP}

NoMatch == [matched |-> FALSE]

\* \(([0-9\.]+)s\) matched at the start of token t
DurationMatches(t) ==
    /\ StartsWith(t, <<"(">>)
    /\ RunLen(t, 2, DurChars) >= 1
    /\ PrefixAt(t, 2 + RunLen(t, 2, DurChars), <<"s", ")">>)

DurationGroup(t) == SubSeq(t, 2, 1 + RunLen(t, 2, DurChars))

\* test_pattern matched with its "---" ending token i of line l: the blanks
\* of the pattern are the token boundaries
TestPatternAt(l, i) ==
    /\ i + 3 <= Len(l)
    /\ EndsWith(l[i], Dashes)
    /\ \E st \in Statuses : l[i + 1] = st \o <<":">>
    /\ Len(l[i + 2]) >= 1
    /\ \A k \in 1..Len(l[i + 2]) : l[i + 2][k] \in NameChars
    /\ DurationMatches(l[i + 3])

\* re.search(test_pattern, line): the leftmost match and its three groups
SearchTestPattern(l) ==
    IF \E i \in 1..Len(l) : TestPatternAt(l, i)
    THEN LET i == CHOOSE j \in 1..Len(l) :
                     /\ TestPatternAt(l, j)
                     /\ \A h \in 1..(j - 1) : ~TestPatternAt(l, h)
         IN  [matched   |-> TRUE,
              status    |-> SubSeq(l[i + 1], 1, Len(l[i + 1]) - 1),
              test_name |-> l[i + 2],
              duration  |-> DurationGroup(l[i + 3])]
    ELSE NoMatch

ContextWindow == 5

UnknownFailureReason == <<<<<<"U", "n", "k", "n", "o", "w", "n">>, <<"f", "a", "i", "l", "u", "r", "e">>, <<"r", "e", "a", "s", "o", "n">>>>>>

\* the line the failure message is anchored at
IsAnchor(l, test_name) == LineContains(l, test_name) /\ LineContains(l, FAIL)

\* FailureMessage with the slice one line short: lines[i:i+4]
FailureMessageShortWindow(lines, test_name) ==
    IF \E i \in 1..Len(lines) : IsAnchor(lines[i], test_name)
    THEN LET i == CHOOSE j \in 1..Len(lines) :
                     /\ IsAnchor(lines[j], test_name)
                     /\ \A h \in 1..(j - 1) : ~IsAnchor(lines[h], test_name)
             last == IF i + ContextWindow - 2 <= Len(lines)
                     THEN i + ContextWindow - 2
                     ELSE Len(lines)
         IN  SubSeq(lines, i, last)
    ELSE UnknownFailureReason

\* lines[i:i+5] joined by "\n", kept as the sequence of the joined lines
FailureMessage(lines, test_name) ==
    IF \E i \in 1..Len(lines) : IsAnchor(lines[i], test_name)
    THEN LET i == CHOOSE j \in 1..Len(lines) :
                     /\ IsAnchor(lines[j], test_name)
                     /\ \A h \in 1..(j - 1) : ~IsAnchor(lines[h], test_name)
             last == IF i + ContextWindow - 1 <= Len(lines)
                     THEN i + ContextWindow - 1
                     ELSE Len(lines)
         IN  SubSeq(lines, i, last)
    ELSE UnknownFailureReason

InitialCounts ==
    [total |-> 0, passed |-> 0, failed |-> 0, skipped |-> 0,
     failing_tests |-> <<>>]

\* CountMatch with the SKIP branch forgetting its counter
CountMatchSkipUncounted(acc, m, lines) ==
    IF m.status = PASS
    THEN [acc EXCEPT !.total = @ + 1, !.passed = @ + 1]
    ELSE IF m.status = FAIL
    THEN [acc EXCEPT !.total = @ + 1, !.failed = @ + 1,
                     !.failing_tests =
                         Append(@, [name     |-> m.test_name,
                                    message  |-> UnknownFailureReason,
                                    duration |-> m.duration])]
    ELSE [acc EXCEPT !.total = @ + 1]

\* CountMatch putting a new failure record in front of the list
CountMatchPrepends(acc, m, lines) ==
    IF m.status = PASS
    THEN [acc EXCEPT !.total = @ + 1, !.passed = @ + 1]
    ELSE IF m.status = FAIL
    THEN [acc EXCEPT !.total = @ + 1, !.failed = @ + 1,
                     !.failing_tests =
                         <<[name     |-> m.test_name,
                            message  |-> FailureMessage(lines, m.test_name),
                            duration |-> m.duration]>> \o @]
    ELSE IF m.status = SKIP
    THEN [acc EXCEPT !.total = @ + 1, !.skipped = @ + 1]
    ELSE [acc EXCEPT !.total = @ + 1]

\* the body of the loop for one line that matched
CountMatch(acc, m, lines) ==
    IF m.status = PASS
    THEN [acc EXCEPT !.total = @ + 1, !.passed = @ + 1]
    ELSE IF m.status = FAIL
    THEN [acc EXCEPT !.total = @ + 1, !.failed = @ + 1,
                     !.failing_tests =
                         Append(@, [name     |-> m.test_name,
                                    message  |-> FailureMessage(lines, m.test_name),
                                    duration |-> m.duration])]
    ELSE IF m.status = SKIP
    THEN [acc EXCEPT !.total = @ + 1, !.skipped = @ + 1]
    ELSE [acc EXCEPT !.total = @ + 1]

\* for line in output.splitlines(): ...
RECURSIVE ScanLines(_, _, _)
ScanLines(lines, k, acc) ==
    IF k > Len(lines)
    THEN acc
    ELSE LET m == SearchTestPattern(lines[k])
         IN  IF m.matched
             THEN ScanLines(lines, k + 1, CountMatch(acc, m, lines))
             ELSE ScanLines(lines, k + 1, acc)

SentinelName == <<"C", "o", "m", "p", "i", "l", "a", "t", "i", "o", "n", "O", "r", "S", "e", "t", "u", "p", "F", "a", "i", "l", "u", "r", "e">>

SentinelDuration == <<"0", ".", "0">>

\* if total == 0 and "FAIL" in output
FailureRule(acc, lines) ==
    IF acc.total = 0 /\ TextContains(lines, FAIL)
    THEN [acc EXCEPT !.failed = 1, !.total = 1,
                     !.failing_tests =
                         Append(@, [name     |-> SentinelName,
                                    message  |-> lines,
                                    duration |-> SentinelDuration])]
    ELSE acc

\* all tokens of the text in order: \s+ of the "ok" pattern matches blanks
\* and line breaks alike
RECURSIVE Flatten(_)
Flatten(lines) ==
    IF lines = <<>> THEN <<>> ELSE Head(lines) \o Flatten(Tail(lines))

OkWord == <<"o", "k">>

\* ([0-9\.]+)s matched at the start of token t
OkDurationMatches(t) ==
    /\ RunLen(t, 1, DurChars) >= 1
    /\ PrefixAt(t, 1 + RunLen(t, 1, DurChars), <<"s">>)

\* re.search(r"ok\s+\S+\s+([0-9\.]+)s", output)
OkMatch(lines) ==
    LET toks == Flatten(lines)
    IN  \E j \in 1..Len(toks) :
            /\ j + 2 <= Len(toks)
            /\ EndsWith(toks[j], OkWord)
            /\ OkDurationMatches(toks[j + 2])

\* OkRule without the test of total
OkRuleUnguarded(acc, lines) ==
    IF OkMatch(lines)
    THEN [acc EXCEPT !.passed = 1, !.total = 1]
    ELSE acc

\* if ok_match and total == 0
OkRule(acc, lines) ==
    IF OkMatch(lines) /\ acc.total = 0
    THEN [acc EXCEPT !.passed = 1, !.total = 1]
    ELSE acc

\* parse_go_test_output with the two corrective rules in the other order
parse_go_test_output_ok_first(lines) ==
    FailureRule(OkRule(ScanLines(lines, 1, InitialCounts), lines), lines)

parse_go_test_output(lines) ==
    OkRule(FailureRule(ScanLines(lines, 1, InitialCounts), lines), lines)

(***************************************************************************)
(* The lines a free-text run is made of.                                   *)
(***************************************************************************)
TestFoo == <<"p", "k", "g", "/", "T", "e", "s", "t", "F", "o", "o">>

TestBar == <<"p", "k", "g", "/", "T", "e", "s", "t", "B", "a", "r">>

\* --- FAIL: pkg/TestFoo (0.03s)
FailLine == <<Dashes, FAIL \o <<":">>, TestFoo, <<"(", "0", ".", "0", "3", "s", ")">>>>

\* --- FAIL: pkg/TestBar (0.02s)
FailBarLine == <<Dashes, FAIL \o <<":">>, TestBar, <<"(", "0", ".", "0", "2", "s", ")">>>>

\* --- PASS: pkg/TestBar (0.01s)
PassLine == <<Dashes, PASS \o <<":">>, TestBar, <<"(", "0", ".", "0", "1", "s", ")">>>>

\* --- SKIP: pkg/TestBar (0.00s)
SkipLine == <<Dashes, SKIP \o <<":">>, TestBar, <<"(", "0", ".", "0", "0", "s", ")">>>>

\* foo_test.go:12: pkg/TestFoo FAIL: want 1
AssertLine == <<<<"f", "o", "o", "_", "t", "e", "s", "t", ".", "g", "o", ":", "1", "2", ":">>, TestFoo, FAIL \o <<":">>, <<"w", "a", "n", "t">>, <<"1">>>>

\* ok example/pkg 0.012s
OkLine == <<OkWord, <<"e", "x", "a", "m", "p", "l", "e", "/", "p", "k", "g">>, <<"0", ".", "0", "1", "2", "s">>>>

\* exit status 2
NoiseLine == <<<<"e", "x", "i", "t">>, <<"s", "t", "a", "t", "u", "s">>, <<"2">>>>

LinePool == {FailLine, FailBarLine, PassLine, SkipLine, AssertLine, OkLine,
             NoiseLine}

RECURSIVE SeqsUpTo(_, _)
SeqsUpTo(S, n) ==
    IF n = 0
    THEN {<<>>}
    ELSE LET shorter == SeqsUpTo(S, n - 1)
         IN  shorter \cup {Append(s, x) : s \in shorter, x \in S}

\* the lines that decide the failure message of pkg/TestFoo
ContextPool == {FailLine, AssertLine, NoiseLine}

\* every short text over LinePool, and the longer texts over ContextPool
Outputs ==
    SeqsUpTo(LinePool, MaxLines) \cup SeqsUpTo(ContextPool, MaxContextLines)

(***************************************************************************)
(* json.loads on one line of stdout.  A line is modelled as the sequence   *)
(* of its lexical tokens; the members of the objects of StdoutPool have    *)
(* scalar values, and the grammar below is JSON restricted to that shape.  *)
(***************************************************************************)
Punct(c) == [t |-> "punct", v |-> c]

Str(s) == [t |-> "string", v |-> s]

Num(n) == [t |-> "number", v |-> n]

Lit(w) == [t |-> "literal", v |-> w]

Junk(w) == [t |-> "junk", v |-> w]

IsScalarToken(tok) == tok.t \in {"string", "number", "literal"}

DecodeError == [decoded |-> FALSE]

\* a decoded scalar: a Python str, int, or None/True/False
Scalar(tok) == [decoded |-> TRUE, type |-> tok.t, v |-> tok.v, members |-> <<>>]

\* a decoded object: a Python dict, as its members in source order
Object(members) == [decoded |-> TRUE, type |-> "object", v |-> "", members |-> members]

\* a decoded array: a Python list
Array == [decoded |-> TRUE, type |-> "array", v |-> "", members |-> <<>>]

\* the members of an object from token pos on:  string ":" scalar, then
\* "," and another member, or "}" as the last token of the line
RECURSIVE ParseMembers(_, _, _)
ParseMembers(toks, pos, members) ==
    IF /\ pos + 3 <= Len(toks)
       /\ toks[pos].t = "string"
       /\ toks[pos + 1] = Punct(":")
       /\ IsScalarToken(toks[pos + 2])
    THEN LET more == Append(members, <<toks[pos].v, Scalar(toks[pos + 2])>>)
         IN  IF toks[pos + 3] = Punct("}") /\ pos + 3 = Len(toks)
             THEN Object(more)
             ELSE IF toks[pos + 3] = Punct(",")
             THEN ParseMembers(toks, pos + 4, more)
             ELSE DecodeError
    ELSE DecodeError

\* json.loads(line): the decoded value, or JSONDecodeError
JsonLoads(toks) ==
    IF Len(toks) = 0
    THEN DecodeError
    ELSE IF Len(toks) = 1
    THEN IF IsScalarToken(toks[1]) THEN Scalar(toks[1]) ELSE DecodeError
    ELSE IF toks = <<Punct("["), Punct("]")>>
    THEN Array
    ELSE IF toks = <<Punct("{"), Punct("}")>>
    THEN Object(<<>>)
    ELSE IF toks[1] = Punct("{")
    THEN ParseMembers(toks, 2, <<>>)
    ELSE DecodeError

None == [decoded |-> TRUE, type |-> "literal", v |-> "null", members |-> <<>>]

\* dict.get(key): the value of the last member named key, None without one
RECURSIVE DictGet(_, _, _)
DictGet(members, n, key) ==
    IF n = 0
    THEN None
    ELSE IF members[n][1] = key
    THEN members[n][2]
    ELSE DictGet(members, n - 1, key)

\* data.get("Action")
ActionOf(data) == DictGet(data.members, Len(data.members), "Action")

PyStr(s) == [decoded |-> TRUE, type |-> "string", v |-> s, members |-> <<>>]

(***************************************************************************)
(* GoTester._parse_test_output (structured mode).                          *)
(***************************************************************************)
\* data.get("Action") == "run" or ... == "pass" or ... == "fail"
IsRetained(data) ==
    \/ ActionOf(data) = PyStr("run")
    \/ ActionOf(data) = PyStr("pass")
    \/ ActionOf(data) = PyStr("fail")

\* for line in stdout.splitlines(): the list results["tests"], or the
\* exception that ends the loop.  Only json.JSONDecodeError is caught: .get
\* on a value that is not a dict raises AttributeError.
RECURSIVE CollectTests(_, _, _)
CollectTests(lines, k, tests) ==
    IF k > Len(lines)
    THEN [raised |-> FALSE, tests |-> tests]
    ELSE LET data == JsonLoads(lines[k])
         IN  IF ~data.decoded
             THEN CollectTests(lines, k + 1, tests)
             ELSE IF data.type # "object"
             THEN [raised |-> TRUE, tests |-> tests]
             ELSE IF IsRetained(data)
             THEN CollectTests(lines, k + 1, Append(tests, data))
             ELSE CollectTests(lines, k + 1, tests)

\* sum(1 for t in results["tests"] if t.get("Action") == action)
RECURSIVE CountAction(_, _)
CountAction(tests, action) ==
    IF tests = <<>>
    THEN 0
    ELSE (IF ActionOf(Head(tests)) = PyStr(action) THEN 1 ELSE 0)
         + CountAction(Tail(tests), action)

\* Summary with total counting every retained record
SummaryCountsRetained(tests) ==
    [total  |-> Len(tests),
     passed |-> CountAction(tests, "pass"),
     failed |-> CountAction(tests, "fail")]

Summary(tests) ==
    [total  |-> CountAction(tests, "pass") + CountAction(tests, "fail"),
     passed |-> CountAction(tests, "pass"),
     failed |-> CountAction(tests, "fail")]

\* the dictionary _parse_test_output returns, or the exception it raises
parse_test_output(stdout, stderr, return_code) ==
    LET collected == CollectTests(stdout, 1, <<>>)
    IN  IF collected.raised
        THEN [returned |-> FALSE]
        ELSE [returned    |-> TRUE,
              success     |-> (return_code = 0),
              output      |-> stdout \o stderr,
              return_code |-> return_code,
              tests       |-> collected.tests,
              summary     |-> Summary(collected.tests)]

(***************************************************************************)
(* The lines a structured run is made of.                                  *)
(***************************************************************************)
\* {"Action":"<action>","Test":"<test>"}
Event(action, test) ==
    <<Punct("{"), Str("Action"), Punct(":"), Str(action), Punct(","),
      Str("Test"), Punct(":"), Str(test), Punct("}")>>

PassEvent == Event("pass", "TestA")

FailEvent == Event("fail", "TestB")

RunEvent == Event("run", "TestA")

SkipEvent == Event("skip", "TestC")

\* {"Action":"pass","Test":      cut off in the middle of the record
TruncatedEvent == SubSeq(PassEvent, 1, 7)

\* FAIL example/pkg [build failed]
BuildFailedLine == <<Junk("FAIL"), Junk("example/pkg"), Punct("["), Junk("build"), Junk("failed"), Punct("]")>>

\* 42
NumberLine == <<Num("42")>>

StdoutPool == {PassEvent, FailEvent, RunEvent, SkipEvent, TruncatedEvent,
               BuildFailedLine, NumberLine}

Stdouts == SeqsUpTo(StdoutPool, MaxStdout)

Stderrs == {<<>>, <<BuildFailedLine>>}

(***************************************************************************)
(* State.                                                                  *)
(***************************************************************************)
VARIABLES
    entry,          \* the entry point that was called, "none" before the call
    pc,             \* position of the call in its code
    use_mock,       \* run_tests: the use_mock argument
    package_path,   \* run_tests: the package_path argument
    project_exists, \* run_tests: self.project_path is an existing directory
    spawned,        \* the subprocess.run calls made so far, in order
    proc,           \* the completed test process: returncode and captured text
    result,         \* the dictionary the call returned
    error,          \* the exception the call ended with
    task,           \* run_test_and_notify: the state of the background task
    sent            \* the messages posted to Slack, in order

vars == <<entry, pc, use_mock, package_path, project_exists, spawned, proc,
          result, error, task, sent>>

NoProc == [completed |-> FALSE]

NoResult == [returned |-> FALSE]

NoError == "none"

ReturnCodes == {0, 1}

Init ==
    /\ entry = "none"
    /\ pc = "idle"
    /\ use_mock = FALSE
    /\ package_path = "None"
    /\ project_exists = TRUE
    /\ spawned = <<>>
    /\ proc = NoProc
    /\ result = NoResult
    /\ error = NoError
    /\ task = "none"
    /\ sent = <<>>

\* one subprocess.run call: its argument list and how it went: the process
\* ran and exited with 0 ("exit0") or with another code ("nonzero"), or no
\* process ran because the executable is missing ("notfound"), it may not be
\* executed ("denied") or the working directory is missing ("nocwd")
Spawn(cmd, outcome) == [cmd |-> cmd, outcome |-> outcome]

Started(s) == s.outcome \in {"exit0", "nonzero"}

ExitOutcome(rc) == IF rc = 0 THEN "exit0" ELSE "nonzero"

\* the call ends with an exception
Raise(exc) ==
    /\ pc' = "raised"
    /\ error' = exc
    /\ UNCHANGED <<result, proc>>

(***************************************************************************)
(* GoRunnerAgent.execute_go_tests.                                         *)
(***************************************************************************)
GoModInitCmd == <<"go", "mod", "init", "test_module">>

GoModTidyCmd == <<"go", "mod", "tidy">>

AgentTestCmd == <<"go", "test", "./pkg", "-v">>

CallExecuteGoTests ==
    /\ pc = "idle"
    /\ entry' = "execute_go_tests"
    /\ pc' = "mod_init"
    /\ UNCHANGED <<use_mock, package_path, project_exists, spawned, proc,
                   result, error, task, sent>>

\* subprocess.run(["go", "mod", "init", "test_module"], ...): the exit code is
\* not inspected; a missing go executable raises FileNotFoundError
GoModInit ==
    /\ entry = "execute_go_tests"
    /\ pc = "mod_init"
    /\ \E outcome \in {"exit0", "nonzero", "notfound"} :
          /\ spawned' = Append(spawned, Spawn(GoModInitCmd, outcome))
          /\ IF outcome = "notfound"
             THEN Raise("FileNotFoundError")
             ELSE pc' = "mod_tidy" /\ UNCHANGED <<result, proc, error>>
    /\ UNCHANGED <<entry, use_mock, package_path, project_exists, task, sent>>

\* GoModTidy with check=True: a nonzero exit ends the call
GoModTidyChecked ==
    /\ entry = "execute_go_tests"
    /\ pc = "mod_tidy"
    /\ \E outcome \in {"exit0", "nonzero", "notfound"} :
          /\ spawned' = Append(spawned, Spawn(GoModTidyCmd, outcome))
          /\ IF outcome = "notfound"
             THEN Raise("FileNotFoundError")
             ELSE IF outcome = "nonzero"
             THEN Raise("CalledProcessError")
             ELSE pc' = "go_test" /\ UNCHANGED <<result, proc, error>>
    /\ UNCHANGED <<entry, use_mock, package_path, project_exists, task, sent>>

\* subprocess.run(["go", "mod", "tidy"], ...)
GoModTidy ==
    /\ entry = "execute_go_tests"
    /\ pc = "mod_tidy"
    /\ \E outcome \in {"exit0", "nonzero", "notfound"} :
          /\ spawned' = Append(spawned, Spawn(GoModTidyCmd, outcome))
          /\ IF outcome = "notfound"
             THEN Raise("FileNotFoundError")
             ELSE pc' = "go_test" /\ UNCHANGED <<result, proc, error>>
    /\ UNCHANGED <<entry, use_mock, package_path, project_exists, task, sent>>

\* result = subprocess.run(["go", "test", "./pkg", "-v"], ...);
\* output = result.stdout + result.stderr, as its lines
AgentGoTest ==
    /\ entry = "execute_go_tests"
    /\ pc = "go_test"
    /\ \/ /\ spawned' = Append(spawned, Spawn(AgentTestCmd, "notfound"))
          /\ Raise("FileNotFoundError")
       \/ /\ \E rc \in ReturnCodes, output \in Outputs :
                /\ spawned' = Append(spawned,
                       Spawn(AgentTestCmd, ExitOutcome(rc)))
                /\ proc' = [completed |-> TRUE, returncode |-> rc,
                            output |-> output]
          /\ pc' = "parse"
          /\ UNCHANGED <<result, error>>
    /\ UNCHANGED <<entry, use_mock, package_path, project_exists, task, sent>>

\* the dictionary execute_go_tests returns
AgentResults(returncode, output) ==
    LET parsed == parse_go_test_output(output)
    IN  [returned      |-> TRUE,
         success       |-> (returncode = 0),
         output        |-> output,
         return_code   |-> returncode,
         total         |-> parsed.total,
         passed        |-> parsed.passed,
         failed        |-> parsed.failed,
         skipped       |-> parsed.skipped,
         failing_tests |-> parsed.failing_tests]

\* results.update(self._parse_go_test_output(output)); return results
AgentParse ==
    /\ entry = "execute_go_tests"
    /\ pc = "parse"
    /\ result' = AgentResults(proc.returncode, proc.output)
    /\ pc' = "done"
    /\ UNCHANGED <<entry, use_mock, package_path, project_exists, spawned,
                   proc, error, task, sent>>

(***************************************************************************)
(* GoTester.run_tests.                                                     *)
(***************************************************************************)
MockgenVersionCmd == <<"mockgen", "--version">>

GoInstallCmd == <<"go", "install", "github.com/golang/mock/mockgen@latest">>

\* cmd = ["go", "test"]; if package_path: cmd.append(package_path);
\* cmd.extend(["-v", "-json"])
TestCmd(path) ==
    <<"go", "test">>
    \o (IF path \notin {"None", ""} THEN <<path>> ELSE <<>>)
    \o <<"-v", "-json">>

PackagePaths == {"None", "", "./pkg"}

\* run_tests(package_path, use_mock) on a tester whose project_path exists
\* or not; "if use_mock:" selects the first step.  The call is made by the
\* background task run_test_and_notify (main.py), its only caller, with the
\* arguments it reads from data.
CallRunTests ==
    /\ pc = "idle"
    /\ entry' = "run_tests"
    /\ task' = "running"
    /\ \E mock \in BOOLEAN, path \in PackagePaths, exists \in BOOLEAN :
          /\ use_mock' = mock
          /\ package_path' = path
          /\ project_exists' = exists
          /\ pc' = IF mock THEN "version_check" ELSE "go_test"
    /\ UNCHANGED <<spawned, proc, result, error, sent>>

\* subprocess.run(["mockgen", "--version"], capture_output=True, check=True)
\* inside try/except (CalledProcessError, FileNotFoundError)
MockgenVersionCheck ==
    /\ entry = "run_tests"
    /\ pc = "version_check"
    /\ \E outcome \in {"exit0", "nonzero", "notfound", "denied"} :
          /\ spawned' = Append(spawned, Spawn(MockgenVersionCmd, outcome))
          /\ IF outcome = "exit0"
             THEN pc' = "go_test" /\ UNCHANGED <<result, proc, error>>
             ELSE IF outcome \in {"nonzero", "notfound"}
             THEN pc' = "install" /\ UNCHANGED <<result, proc, error>>
             ELSE Raise("PermissionError")
    /\ UNCHANGED <<entry, use_mock, package_path, project_exists, task, sent>>

\* GoInstallMockgen without check=True: a nonzero exit goes on to the tests
GoInstallMockgenUnchecked ==
    /\ entry = "run_tests"
    /\ pc = "install"
    /\ \E outcome \in {"exit0", "nonzero", "notfound"} :
          /\ spawned' = Append(spawned, Spawn(GoInstallCmd, outcome))
          /\ IF outcome \in {"exit0", "nonzero"}
             THEN pc' = "go_test" /\ UNCHANGED <<result, proc, error>>
             ELSE Raise("FileNotFoundError")
    /\ UNCHANGED <<entry, use_mock, package_path, project_exists, task, sent>>

\* subprocess.run(["go", "install", ...], check=True) in the except block
GoInstallMockgen ==
    /\ entry = "run_tests"
    /\ pc = "install"
    /\ \E outcome \in {"exit0", "nonzero", "notfound"} :
          /\ spawned' = Append(spawned, Spawn(GoInstallCmd, outcome))
          /\ IF outcome = "exit0"
             THEN pc' = "go_test" /\ UNCHANGED <<result, proc, error>>
             ELSE IF outcome = "nonzero"
             THEN Raise("CalledProcessError")
             ELSE Raise("FileNotFoundError")
    /\ UNCHANGED <<entry, use_mock, package_path, project_exists, task, sent>>

\* result = subprocess.run(cmd, capture_output=True, text=True,
\*                         cwd=self.project_path)
\* A cwd that does not exist, or a missing go executable, raises
\* FileNotFoundError and no process runs.
TesterGoTest ==
    /\ entry = "run_tests"
    /\ pc = "go_test"
    /\ \/ /\ ~project_exists
          /\ spawned' = Append(spawned, Spawn(TestCmd(package_path), "nocwd"))
          /\ Raise("FileNotFoundError")
       \/ /\ project_exists
          /\ spawned' = Append(spawned,
                 Spawn(TestCmd(package_path), "notfound"))
          /\ Raise("FileNotFoundError")
       \/ /\ project_exists
          /\ \E rc \in ReturnCodes, stdout \in Stdouts, stderr \in Stderrs :
                /\ spawned' = Append(spawned,
                       Spawn(TestCmd(package_path), ExitOutcome(rc)))
                /\ proc' = [completed |-> TRUE, returncode |-> rc,
                            stdout |-> stdout, stderr |-> stderr]
          /\ pc' = "parse"
          /\ UNCHANGED <<result, error>>
    /\ UNCHANGED <<entry, use_mock, package_path, project_exists, task, sent>>

\* return self._parse_test_output(result.stdout, result.stderr,
\*                                result.returncode)
TesterParse ==
    /\ entry = "run_tests"
    /\ pc = "parse"
    /\ LET results == parse_test_output(proc.stdout, proc.stderr,
                                        proc.returncode)
       IN  IF results.returned
           THEN /\ result' = results
                /\ pc' = "done"
                /\ UNCHANGED error
           ELSE /\ pc' = "raised"
                /\ error' = "AttributeError"
                /\ UNCHANGED result
    /\ UNCHANGED <<entry, use_mock, package_path, project_exists, spawned,
                   proc, task, sent>>

(***************************************************************************)
(* run_test_and_notify (main.py) and SlackNotifier.send_test_results.      *)
(***************************************************************************)
\* dict.get(key, default): the value of the last member named key
RECURSIVE DictGetDefault(_, _, _, _)
DictGetDefault(members, n, key, default) ==
    IF n = 0
    THEN default
    ELSE IF members[n][1] = key
    THEN members[n][2]
    ELSE DictGetDefault(members, n - 1, key, default)

\* [t for t in test_results.get("tests", []) if t.get("Action") == "fail"]
RECURSIVE FailedTests(_)
FailedTests(tests) ==
    IF tests = <<>>
    THEN <<>>
    ELSE (IF ActionOf(Head(tests)) = PyStr("fail")
          THEN <<Head(tests)>>
          ELSE <<>>) \o FailedTests(Tail(tests))

DisplayedFailures == 5

\* test.get("Test", "Unknown") for test in failed_tests[:5]
DisplayedNames(failed_tests) ==
    [i \in 1..(IF Len(failed_tests) <= DisplayedFailures
               THEN Len(failed_tests)
               ELSE DisplayedFailures) |->
        DictGetDefault(failed_tests[i].members, Len(failed_tests[i].members),
                       "Test", PyStr("Unknown"))]

\* the message send_test_results builds: always the test-result layout,
\* headed by success or failure, with the summary counts and the failed tests
TestResultsMessage(test_results) ==
    [kind     |-> "test_results",
     success  |-> test_results.success,
     total    |-> test_results.summary.total,
     passed   |-> test_results.summary.passed,
     failed   |-> test_results.summary.failed,
     failures |-> DisplayedNames(FailedTests(test_results.tests)),
     more     |-> IF Len(FailedTests(test_results.tests)) > DisplayedFailures
                  THEN Len(FailedTests(test_results.tests)) - DisplayedFailures
                  ELSE 0]

\* notifier.send_test_results(results) after run_tests returned: the message
\* is posted, or chat_postMessage raises SlackApiError, which is caught
SendTestResults ==
    /\ entry = "run_tests"
    /\ pc = "done"
    /\ task = "running"
    /\ \E posted \in BOOLEAN :
          sent' = IF posted
                  THEN Append(sent, TestResultsMessage(result))
                  ELSE sent
    /\ task' = "finished"
    /\ UNCHANGED <<entry, pc, use_mock, package_path, project_exists, spawned,
                   proc, result, error>>

\* run_tests raised: the exception leaves run_test_and_notify at the call,
\* which has no try, and the task ends without reaching the notifier
TaskRaises ==
    /\ entry = "run_tests"
    /\ pc = "raised"
    /\ task = "running"
    /\ task' = "failed"
    /\ UNCHANGED <<entry, pc, use_mock, package_path, project_exists, spawned,
                   proc, result, error, sent>>

Next ==
    \/ CallExecuteGoTests
    \/ GoModInit
    \/ GoModTidy
    \/ AgentGoTest
    \/ AgentParse
    \/ CallRunTests
    \/ MockgenVersionCheck
    \/ GoInstallMockgen
    \/ TesterGoTest
    \/ TesterParse
    \/ SendTestResults
    \/ TaskRaises

Spec == Init /\ [][Next]_vars

(***************************************************************************)
(* Properties.                                                             *)
(***************************************************************************)
AgentDone == entry = "execute_go_tests" /\ pc = "done"

TesterDone == entry = "run_tests" /\ pc = "done"

\* the positions of the lines matching the status-line grammar with status st
StatusLines(lines, st) ==
    {k \in 1..Len(lines) :
        /\ SearchTestPattern(lines[k]).matched
        /\ SearchTestPattern(lines[k]).status = st}

AllStatusLines(lines) ==
    StatusLines(lines, PASS) \cup StatusLines(lines, FAIL)
        \cup StatusLines(lines, SKIP)

\* C1: the counts a parser returns are non-negative and add up: total =
\* passed + failed + skipped in free-text mode, total = passed + failed
\* (skipped taken as 0) in structured mode.
C1_CountsAddUp ==
    /\ AgentDone =>
          /\ result.total = result.passed + result.failed + result.skipped
          /\ result.total >= 0 /\ result.passed >= 0
          /\ result.failed >= 0 /\ result.skipped >= 0
    /\ TesterDone =>
          /\ result.summary.total
                 = result.summary.passed + result.summary.failed + 0
          /\ result.summary.total >= 0 /\ result.summary.passed >= 0
          /\ result.summary.failed >= 0

\* a free-text result that counted a passed, a failed and a skipped test
C1_Witness ==
    /\ AgentDone
    /\ result.passed >= 1 /\ result.failed >= 1 /\ result.skipped >= 1

\* C2: a free-text run whose process exited nonzero and whose output has no
\* status line returns total >= 1 and exactly one failing record, named
\* CompilationOrSetupFailure, whose message is the whole output; no result
\* with success = false has total = 0.
C2_NonzeroExitSynthesizesFailure ==
    AgentDone =>
        /\ (proc.returncode # 0 /\ AllStatusLines(proc.output) = {}) =>
              /\ result.total >= 1
              /\ Len(result.failing_tests) = 1
              /\ result.failing_tests[1].name = SentinelName
              /\ result.failing_tests[1].message = proc.output
        /\ ~result.success => result.total # 0

\* the message of record r has the line l among its lines
MessageHasLine(r, l) == \E m \in 1..Len(r.message) : r.message[m] = l

\* C3 as claimed: a FAIL status line for N followed five lines later by a
\* line with N and FAIL gives N a record whose message contains that line.
C3_FiveLinesLaterCaptured ==
    AgentDone =>
        \A k \in StatusLines(proc.output, FAIL) :
            LET N == SearchTestPattern(proc.output[k]).test_name
            IN  (/\ k + 5 <= Len(proc.output)
                 /\ IsAnchor(proc.output[k + 5], N))
                => \E i \in 1..Len(result.failing_tests) :
                      /\ result.failing_tests[i].name = N
                      /\ MessageHasLine(result.failing_tests[i],
                                        proc.output[k + 5])

\* C3 as amended: when no line before the FAIL status line of N has both N
\* and FAIL, a line with N and FAIL at most four lines after the status
\* line is in the message of every record of N, and the message starts with
\* the status line.
C3_WithinFourLinesCaptured ==
    AgentDone =>
        \A k \in StatusLines(proc.output, FAIL) :
            LET N == SearchTestPattern(proc.output[k]).test_name
            IN  (\A h \in 1..(k - 1) : ~IsAnchor(proc.output[h], N))
                => \A i \in 1..Len(result.failing_tests) :
                      result.failing_tests[i].name = N
                      => /\ result.failing_tests[i].message[1] = proc.output[k]
                         /\ \A d \in 1..(ContextWindow - 1) :
                               (/\ k + d <= Len(proc.output)
                                /\ IsAnchor(proc.output[k + d], N))
                               => MessageHasLine(result.failing_tests[i],
                                                 proc.output[k + d])

\* the assertion line sits four lines after the status line and is captured
C3_Witness ==
    /\ AgentDone
    /\ Len(proc.output) >= 5
    /\ proc.output[1] = FailLine
    /\ proc.output[5] = AssertLine
    /\ Len(result.failing_tests) = 1
    /\ MessageHasLine(result.failing_tests[1], AssertLine)

\* C4: free-text input that contains FAIL and has no status line gives
\* total = 1, failed = 1, passed = 0, skipped = 0 and the single record
\* CompilationOrSetupFailure whose message is the whole input, also when an
\* "ok <pkg> <duration>s" trailer is present.
C4_FailureMarkerWithoutStatusLines ==
    (/\ AgentDone
     /\ TextContains(proc.output, FAIL)
     /\ AllStatusLines(proc.output) = {})
    => /\ result.total = 1 /\ result.failed = 1
       /\ result.passed = 0 /\ result.skipped = 0
       /\ Len(result.failing_tests) = 1
       /\ result.failing_tests[1].name = SentinelName
       /\ result.failing_tests[1].message = proc.output

\* FAIL and the ok trailer in one input without status lines
C4_Witness ==
    /\ AgentDone
    /\ TextContains(proc.output, FAIL)
    /\ AllStatusLines(proc.output) = {}
    /\ OkMatch(proc.output)
    /\ result.failed = 1

\* C5: free-text input without status line and without FAIL that has the ok
\* trailer gives total = 1, passed = 1, failed = 0, skipped = 0 and no
\* failing record; with at least one status line the trailer changes no
\* count: the counts are the numbers of status lines.
C5_OkTrailer ==
    AgentDone =>
        /\ (/\ AllStatusLines(proc.output) = {}
            /\ ~TextContains(proc.output, FAIL)
            /\ OkMatch(proc.output))
           => /\ result.total = 1 /\ result.passed = 1
              /\ result.failed = 0 /\ result.skipped = 0
              /\ result.failing_tests = <<>>
        /\ (AllStatusLines(proc.output) # {} /\ OkMatch(proc.output))
           => /\ result.total = Cardinality(AllStatusLines(proc.output))
              /\ result.passed = Cardinality(StatusLines(proc.output, PASS))
              /\ result.failed = Cardinality(StatusLines(proc.output, FAIL))
              /\ result.skipped = Cardinality(StatusLines(proc.output, SKIP))

\* the ok trailer alone made the single passing count
C5_Witness ==
    /\ AgentDone
    /\ AllStatusLines(proc.output) = {}
    /\ ~TextContains(proc.output, FAIL)
    /\ OkMatch(proc.output)
    /\ result.passed = 1

\* the positions of the stdout lines that decode to an object whose Action
\* is the string a
ActionLines(lines, a) ==
    {k \in 1..Len(lines) :
        /\ JsonLoads(lines[k]).decoded
        /\ JsonLoads(lines[k]).type = "object"
        /\ ActionOf(JsonLoads(lines[k])) = PyStr(a)}

RetainedLines(lines) ==
    ActionLines(lines, "run") \cup ActionLines(lines, "pass")
        \cup ActionLines(lines, "fail")

\* C6: structured mode retains exactly the decoded records whose Action is
\* run, pass or fail, in input order; passed and failed count the retained
\* pass and fail records and total = passed + failed, so run records, other
\* actions and undecodable lines never change total.
C6_StructuredCounts ==
    TesterDone =>
        LET R == RetainedLines(proc.stdout)
        IN  /\ Len(result.tests) = Cardinality(R)
            /\ \E f \in [1..Len(result.tests) -> R] :
                  /\ \A i, j \in 1..Len(result.tests) : i < j => f[i] < f[j]
                  /\ \A i \in 1..Len(result.tests) :
                        result.tests[i] = JsonLoads(proc.stdout[f[i]])
            /\ result.summary.passed
                   = Cardinality(ActionLines(proc.stdout, "pass"))
            /\ result.summary.failed
                   = Cardinality(ActionLines(proc.stdout, "fail"))
            /\ result.summary.total
                   = result.summary.passed + result.summary.failed

\* a pass record, a run record and a truncated line in one stdout
C6_Witness ==
    /\ TesterDone
    /\ ActionLines(proc.stdout, "pass") # {}
    /\ ActionLines(proc.stdout, "run") # {}
    /\ \E k \in 1..Len(proc.stdout) : ~JsonLoads(proc.stdout[k]).decoded
    /\ result.summary.total = 1
    /\ Len(result.tests) = 2

\* C7: parsing never raises: once the test process has completed, the call
\* is parsing or has returned its result.
C7_ParsingNeverRaises == proc.completed => pc \in {"parse", "done"}

\* C8: in run_tests a test process that cannot be spawned ends the call
\* with an error and no result; a test process that ran to completion
\* always gives a result with success = (exit code = 0) and return_code the
\* exit code.
C8_SpawnErrorOrResult ==
    entry = "run_tests" =>
        /\ (/\ spawned # <<>>
            /\ spawned[Len(spawned)].cmd = TestCmd(package_path)
            /\ ~Started(spawned[Len(spawned)]))
           => /\ pc = "raised"
              /\ error # NoError
              /\ ~result.returned
        /\ (proc.completed /\ pc # "parse")
           => /\ pc = "done"
              /\ result.returned
              /\ result.success = (proc.returncode = 0)
              /\ result.return_code = proc.returncode

\* C9: with use_mock the version check is the first process; the install
\* runs only after a failed version check; a failed install ends the call
\* with an error, nothing is spawned after it and no result is returned;
\* without use_mock neither the version check nor the install is spawned.
C9_MockPreparation ==
    entry = "run_tests" =>
        /\ use_mock =>
              /\ pc # "version_check" => spawned # <<>>
              /\ spawned # <<>> => spawned[1].cmd = MockgenVersionCmd
        /\ \A i \in 1..Len(spawned) :
              spawned[i].cmd = GoInstallCmd
              => /\ i = 2
                 /\ spawned[1].cmd = MockgenVersionCmd
                 /\ spawned[1].outcome \in {"nonzero", "notfound"}
                 /\ spawned[i].outcome # "exit0"
                    => /\ pc = "raised"
                       /\ error # NoError
                       /\ Len(spawned) = i
                       /\ ~result.returned
        /\ ~use_mock =>
              \A i \in 1..Len(spawned) :
                  spawned[i].cmd \notin {MockgenVersionCmd, GoInstallCmd}

\* the install was attempted after a failed version check and failed
C9_Witness ==
    /\ entry = "run_tests"
    /\ use_mock
    /\ Len(spawned) = 2
    /\ spawned[2].cmd = GoInstallCmd
    /\ spawned[2].outcome = "nonzero"
    /\ pc = "raised"

\* C10: with a project root directory that does not exist, run_tests starts
\* no external process at all.
C10_MissingProjectDirSpawnsNothing ==
    (entry = "run_tests" /\ ~project_exists)
    => \A i \in 1..Len(spawned) : ~Started(spawned[i])

\* C11: a run of run_test_and_notify that ended in a fatal error has sent a
\* notification, and that notification is not a test-result message.
C11_FatalErrorNotified ==
    task = "failed"
    => /\ sent # <<>>
       /\ sent[Len(sent)].kind # "test_results"

\* the place of a command of run_tests in its fixed order
TesterStep(cmd) ==
    IF cmd = MockgenVersionCmd THEN 1
    ELSE IF cmd = GoInstallCmd THEN 2
    ELSE IF cmd = TestCmd(package_path) THEN 3
    ELSE 0

AgentCmds == <<GoModInitCmd, GoModTidyCmd, AgentTestCmd>>

\* C12: one call is a single attempt.  In run_tests the version check, the
\* install and go test are each spawned at most once and in that order, and
\* nothing is spawned after a failed install or after go test.  In
\* execute_go_tests the processes are module init, dependency tidy and one
\* go test, in that order, and a nonzero exit of init or tidy leaves the
\* call at the next command.
C12_SingleAttempt ==
    /\ entry = "run_tests" =>
          /\ \A i \in 1..Len(spawned) : TesterStep(spawned[i].cmd) # 0
          /\ \A i, j \in 1..Len(spawned) :
                i < j => TesterStep(spawned[i].cmd) < TesterStep(spawned[j].cmd)
          /\ \A i \in 1..Len(spawned) :
                \/ i = Len(spawned)
                \/ spawned[i].cmd = MockgenVersionCmd
                \/ spawned[i].cmd = GoInstallCmd /\ spawned[i].outcome = "exit0"
    /\ entry = "execute_go_tests" =>
          /\ Len(spawned) <= Len(AgentCmds)
          /\ \A i \in 1..Len(spawned) : spawned[i].cmd = AgentCmds[i]
          /\ pc \in {"parse", "done"} => Len(spawned) = Len(AgentCmds)
          /\ (Len(spawned) = 1 /\ spawned[1].outcome = "nonzero")
             => pc = "mod_tidy"
          /\ (Len(spawned) = 2 /\ spawned[2].outcome = "nonzero")
             => pc = "go_test"

\* go test ran and returned after init and tidy both exited nonzero
C12_Witness ==
    /\ entry = "execute_go_tests"
    /\ pc = "done"
    /\ Len(spawned) = 3
    /\ spawned[1].outcome = "nonzero"
    /\ spawned[2].outcome = "nonzero"
    /\ spawned[3].cmd = AgentTestCmd
    /\ result.returned

\* the position of the i-th line, in document order, among the positions P
NthOf(P, i) == CHOOSE k \in P : Cardinality({h \in P : h < k}) = i - 1

\* C13: the free-text parser returns as many failing records as its failed
\* count; when status lines matched, the records are those of the FAIL
\* status lines, one each and in document order, with the name and the
\* duration token of their own status line, and PASS and SKIP status lines
\* add none.
C13_FailingTestsFollowFailLines ==
    AgentDone =>
        /\ Len(result.failing_tests) = result.failed
        /\ AllStatusLines(proc.output) # {} =>
              LET F == StatusLines(proc.output, FAIL)
              IN  /\ Len(result.failing_tests) = Cardinality(F)
                  /\ \A i \in 1..Len(result.failing_tests) :
                        LET m == SearchTestPattern(proc.output[NthOf(F, i)])
                        IN  /\ result.failing_tests[i].name = m.test_name
                            /\ result.failing_tests[i].duration = m.duration

\* two FAIL status lines of different tests and a PASS status line
C13_Witness ==
    /\ AgentDone
    /\ StatusLines(proc.output, PASS) # {}
    /\ Len(result.failing_tests) = 2
    /\ result.failing_tests[1].name # result.failing_tests[2].name

====
